---- MODULE Spec2Model ----
(***************************************************************************)
(* Link curation and question generation of the Smart Tender Assistant     *)
(* (src/main.py).  The Streamlit script is re-run on every user            *)
(* interaction; each button handler is one action over the session state.  *)
(* The Fetch-links handler issues up to four searches in sequence and an   *)
(* exception in one of them aborts the rest, so its position is state.     *)
(***************************************************************************)
EXTENDS Integers, Sequences, FiniteSets, TLC

VARIABLES
    accepted,      \* st.session_state["accepted"][kind]   : set of URL
    rejected,      \* st.session_state["rejected"][kind]   : set of URL
    links,         \* st.session_state[kind + "_links"]    : list of URL
    queries,       \* st.session_state["queries"]          : kind -> meta or NoQuery
    start_index,   \* st.session_state["start_index"][kind]
    n_results,     \* st.session_state["n_results"]
    t_qs,          \* st.session_state["t_qs"]
    s_qs,          \* st.session_state["s_qs"]
    pc,            \* "idle", or the kind whose search the Fetch-links handler issues next
    run,           \* the widget values of the Fetch-links handler in progress
    last,          \* the last click: its handler, its category, and whether the
                   \* script run it started ended without an uncaught exception
    sent,          \* the outbound calls the last step issued, in order: searches,
                   \* page downloads and generation calls
    call           \* one application of a helper function: its name, its
                   \* arguments and its result

vars == <<accepted, rejected, links, queries, start_index, n_results,
          t_qs, s_qs, pc, run, last, sent, call>>

----------------------------------------------------------------------------
(* Bounds of the model *)

\* longest organic_results array the upstream search returns
MaxResp == 2
\* largest value of the results-per-query slider that is explored
MaxRPQ == 2
\* "More suggestions" is explored while the cursor stays within this offset
MaxStart == 4

----------------------------------------------------------------------------
(* Characters and strings: a string is a sequence of one-character strings *)

\* str.lower on one character
LowerChar(c) ==
    CASE c = "A" -> "a" [] c = "B" -> "b" [] c = "C" -> "c" [] c = "D" -> "d"
      [] c = "E" -> "e" [] c = "F" -> "f" [] c = "G" -> "g" [] c = "H" -> "h"
      [] c = "I" -> "i" [] c = "J" -> "j" [] c = "K" -> "k" [] c = "L" -> "l"
      [] c = "M" -> "m" [] c = "N" -> "n" [] c = "O" -> "o" [] c = "P" -> "p"
      [] c = "Q" -> "q" [] c = "R" -> "r" [] c = "S" -> "s" [] c = "T" -> "t"
      [] c = "U" -> "u" [] c = "V" -> "v" [] c = "W" -> "w" [] c = "X" -> "x"
      [] c = "Y" -> "y" [] c = "Z" -> "z" [] OTHER -> c

\* str.lower
Lower(s) == [i \in 1..Len(s) |-> LowerChar(s[i])]

\* Python's "d in s" on strings: d occurs in s as a contiguous substring
InStr(d, s) ==
    \E i \in 0..(Len(s) - Len(d)) : \A j \in 1..Len(d) : s[i + j] = d[j]

----------------------------------------------------------------------------
(* URLs *)

\* The URLs of the model.  0 stands for None and for the empty string, the
\* two falsy values a link field or a text input can hold.
URLS == {1, 2, 3}
NoURL == 0

\* urllib.parse.urlparse: the netloc of each URL of the model; it raises
\* ValueError for a string it cannot split into a host.
\*   1  https://arXiv.org/abs/1        2  https://ted.europa.eu/n/2
\*   3  https://www.MIT.EDU/p/3
urlparse(u) ==
    CASE u = 1 -> [raises |-> FALSE,
                   netloc |-> <<"a","r","X","i","v",".","o","r","g">>]
      [] u = 2 -> [raises |-> FALSE,
                   netloc |-> <<"t","e","d",".","e","u","r","o","p","a",".","e","u">>]
      [] u = 3 -> [raises |-> FALSE,
                   netloc |-> <<"w","w","w",".","M","I","T",".","E","D","U">>]
      [] OTHER -> [raises |-> TRUE, netloc |-> << >>]

TRUSTED_LIT_DOMAINS ==
    { <<".","e","d","u">>,
      <<"s","p","r","i","n","g","e","r">>,
      <<"s","c","i","e","n","c","e","d","i","r","e","c","t">>,
      <<"a","r","x","i","v">>,
      <<"r","e","s","e","a","r","c","h","g","a","t","e">>,
      <<"a","c","m">>,
      <<"i","e","e","e">> }

\* The body of is_scholar_url, tabulated once over the URLs of the model.
ScholarlyByURL ==
    [u \in URLS |->
        IF urlparse(u).raises
        THEN FALSE
        ELSE \E d \in TRUSTED_LIT_DOMAINS : InStr(d, Lower(urlparse(u).netloc))]

is_scholar_url(u) == ScholarlyByURL[u]

----------------------------------------------------------------------------
(* Sequences *)

\* Python's "u in L" on a list
InList(u, L) == \E i \in 1..Len(L) : L[i] = u

\* the slice L[:n]
Take(L, n) == SubSeq(L, 1, IF n < Len(L) THEN n ELSE Len(L))

\* list.remove(u): drops the first occurrence of u
ListRemove(L, u) ==
    LET i == CHOOSE k \in 1..Len(L) : L[k] = u /\ \A j \in 1..(k - 1) : L[j] # u
    IN  SubSeq(L, 1, i - 1) \o SubSeq(L, i + 1, Len(L))

\* the loop "for u in extra: if u not in links and u not in accepted: links.append(u)"
RECURSIVE AppendNew(_, _, _)
AppendNew(L, extra, acc) ==
    IF extra = << >> THEN L
    ELSE LET u == Head(extra)
         IN  IF ~InList(u, L) /\ u \notin acc
             THEN AppendNew(Append(L, u), Tail(extra), acc)
             ELSE AppendNew(L, Tail(extra), acc)

\* all sequences over S of length at most n
SeqsUpTo(S, n) == UNION { [1..k -> S] : k \in 0..n }

----------------------------------------------------------------------------
(* The upstream search *)

Kinds == {"t", "s", "prev", "lit"}

\* One organic result: its "link" and "url" fields, NoURL when the field is
\* absent or empty (x.get returns None for an absent field).
Items ==
    { [link |-> NoURL, url |-> NoURL],
      [link |-> 3, url |-> NoURL],
      [link |-> NoURL, url |-> 2],
      [link |-> 1, url |-> 2] }

\* The JSON bodies the search API answers with: one that has no
\* organic_results array, and every array of at most MaxResp results.
Responses ==
    { [error |-> "no results"] } \cup
    { [organic_results |-> r] : r \in SeqsUpTo(Items, MaxResp) }

\* The bodies of at most one result, which carries a url field.
ShortResponses ==
    { [organic_results |-> r] :
        r \in SeqsUpTo({ x \in Items : x.url # NoURL }, 1) }

\* resp.get("organic_results", [])
OrganicResults(resp) ==
    IF "organic_results" \in DOMAIN resp THEN resp.organic_results ELSE << >>

\* x.get("link") or x.get("url")
LinkOf(x) == IF x.link # NoURL THEN x.link ELSE x.url

\* raw = [x.get("link") or x.get("url") for x in ... if x.get("link") or x.get("url")]
RawLinks(resp) ==
    LET rs   == OrganicResults(resp)
        kept == SelectSeq(rs, LAMBDA x : LinkOf(x) # NoURL)
    IN  [i \in 1..Len(kept) |-> LinkOf(kept[i])]

\* serp_links without the Domain Filter: a literature search is truncated
\* like any other.
serp_links_NoDomainFilter(resp, n, lit, kind) ==
    SelectSeq(Take(RawLinks(resp), n), LAMBDA u : u \notin rejected[kind])

\* serp_links that drops the rejected URLs before it truncates to n.
serp_links_ExcludeThenTruncate(resp, n, lit, kind) ==
    LET raw  == RawLinks(resp)
        kept == SelectSeq(raw, LAMBDA u : u \notin rejected[kind])
    IN  IF lit THEN SelectSeq(kept, is_scholar_url) ELSE Take(kept, n)

\* serp_links(q, n, start, engine=..., lit=..., kind=...) on the body resp
\* that requests.get(...).json() returned
serp_links(resp, n, lit, kind) ==
    LET raw == RawLinks(resp)
        sel == IF lit THEN SelectSeq(raw, is_scholar_url) ELSE Take(raw, n)
    IN  SelectSeq(sel, LAMBDA u : u \notin rejected[kind])

----------------------------------------------------------------------------
(* Session state *)

\* the order in which the Fetch-links handler issues its searches
FetchOrder == <<"t", "s", "prev", "lit">>

\* the product names typed into the form; "" is the empty field
Products == {"", "ev"}

\* the query of each category for a product name
QueryText(kind, product) ==
    CASE kind = "t"    -> <<product, " procurement tender">>
      [] kind = "s"    -> <<product, " supplier Europe price">>
      [] kind = "prev" -> <<"site:ted.europa.eu ", product>>
      [] kind = "lit"  -> <<product, " tender specification">>

\* st.session_state["queries"].get(kind) of a category never searched
NoQuery == [q |-> << >>, lit |-> FALSE, engine |-> "none"]

QueryMeta(kind, product) ==
    [q |-> QueryText(kind, product), lit |-> (kind = "lit"), engine |-> "google"]

\* no Fetch-links handler is in progress
NoRun == [product |-> "", chk |-> {}]

\* the record of a click; ok is FALSE when an exception ended the script run
Click(op, kind, ok) == [op |-> op, kind |-> kind, ok |-> ok]

\* the calls a handler sends out
SearchCall(kind, q, n, start) ==
    [op |-> "search", kind |-> kind, q |-> q, n |-> n, start |-> start]
FetchCall(url) == [op |-> "fetch_text", url |-> url]
GeminiCall(role) == [op |-> "gemini", role |-> role]

\* no helper function is applied on its own
NoCall == [fn |-> "none"]

\* Lines 22-32: the session defaults.  The *_links, t_qs, s_qs and n_results
\* keys do not exist yet; every read of them goes through .get with an empty
\* default, or happens only after Fetch links has set them.
Defaults ==
    /\ accepted = [k \in Kinds |-> {}]
    /\ rejected = [k \in Kinds |-> {}]
    /\ links = [k \in Kinds |-> << >>]
    /\ queries = [k \in Kinds |-> NoQuery]
    /\ start_index = [k \in Kinds |-> 0]
    /\ n_results = 0
    /\ t_qs = << >>
    /\ s_qs = << >>
    /\ pc = "idle"
    /\ run = NoRun
    /\ last = Click("open", "", TRUE)
    /\ sent = << >>

Init ==
    /\ Defaults
    /\ call = NoCall

----------------------------------------------------------------------------
(* Fetch links: lines 132-155 *)

\* the first category after position i of FetchOrder whose checkbox is set
NextPc(i, chk) ==
    LET later == { j \in (i + 1)..Len(FetchOrder) : FetchOrder[j] \in chk }
    IN  IF later = {} THEN "idle"
        ELSE FetchOrder[CHOOSE j \in later : \A k \in later : j <= k]

PosOf(kind) == CHOOSE i \in 1..Len(FetchOrder) : FetchOrder[i] = kind

\* the count a Fetch-links search requests
InitialCount(kind, rpq) == IF kind = "lit" THEN rpq * 2 ELSE rpq

\* "Fetch links" that also empties the accepted and rejected sets.
FetchLinks_ClearsCuration(product, rpq, chk) ==
    /\ pc = "idle"
    /\ product # ""
    /\ last' = Click("fetch", "", TRUE)
    /\ sent' = << >>
    /\ links' = [k \in Kinds |-> << >>]
    /\ accepted' = [k \in Kinds |-> {}]
    /\ rejected' = [k \in Kinds |-> {}]
    /\ t_qs' = << >>
    /\ s_qs' = << >>
    /\ n_results' = rpq
    /\ pc' = NextPc(0, chk)
    /\ run' = IF NextPc(0, chk) = "idle" THEN NoRun
              ELSE [product |-> product, chk |-> chk]
    /\ UNCHANGED <<queries, start_index, call>>

\* The click on "Fetch links" with the form's product name, slider value and
\* checkboxes: lines 132-135.  With an empty product name nothing happens.
FetchLinks(product, rpq, chk) ==
    /\ pc = "idle"
    /\ IF product = ""
       THEN /\ last' = Click("fetch_gated", "", TRUE)
            /\ sent' = << >>
            /\ UNCHANGED call
            /\ UNCHANGED <<accepted, rejected, links, queries, start_index,
                           n_results, t_qs, s_qs, pc, run>>
       ELSE /\ last' = Click("fetch", "", TRUE)
            /\ sent' = << >>
            /\ UNCHANGED call
            /\ links' = [k \in Kinds |-> << >>]
            /\ t_qs' = << >>
            /\ s_qs' = << >>
            /\ n_results' = rpq
            /\ pc' = NextPc(0, chk)
            /\ run' = IF NextPc(0, chk) = "idle" THEN NoRun
                      ELSE [product |-> product, chk |-> chk]
            /\ UNCHANGED <<accepted, rejected, queries, start_index>>

\* the request of a category's block: the new query, the count, and the
\* default offset 0 of serp_links (line 43)
InitialCall(kind) ==
    SearchCall(kind, QueryText(kind, run.product), InitialCount(kind, n_results), 0)

\* the search of a category's block: lines 139, 144, 149 and 154
InitialSearch(kind, resp) ==
    serp_links(resp, InitialCount(kind, n_results), kind = "lit", kind)

\* One category's block of the handler (lines 136-155) when the search
\* returns the body resp.
SearchReturns(resp) ==
    /\ pc \in Kinds
    /\ LET kind == pc
           next == NextPc(PosOf(kind), run.chk)
       IN  /\ queries' = [queries EXCEPT ![kind] = QueryMeta(kind, run.product)]
           /\ links' = [links EXCEPT ![kind] = InitialSearch(kind, resp)]
           /\ start_index' = [start_index EXCEPT ![kind] = InitialCount(kind, n_results)]
           /\ pc' = next
           /\ run' = IF next = "idle" THEN NoRun ELSE run
           /\ last' = Click("search", kind, TRUE)
           /\ sent' = <<InitialCall(kind)>>
           /\ UNCHANGED call
    /\ UNCHANGED <<accepted, rejected, n_results, t_qs, s_qs>>

\* The same block when requests.get or .json() raises (network error,
\* timeout, non-JSON body): nothing catches the exception, the script run
\* ends, and the assignments made so far stay in the session state.
SearchRaises ==
    /\ pc \in Kinds
    /\ queries' = [queries EXCEPT ![pc] = QueryMeta(pc, run.product)]
    /\ pc' = "idle"
    /\ run' = NoRun
    /\ last' = Click("search", pc, FALSE)
    /\ sent' = <<InitialCall(pc)>>
    /\ UNCHANGED call
    /\ UNCHANGED <<accepted, rejected, links, start_index, n_results, t_qs, s_qs>>

----------------------------------------------------------------------------
(* link_picker: lines 157-204 *)

\* line 200: the pickers are drawn only when some category has links
PickersDrawn == \E k \in Kinds : links[k] # << >>

\* lines 160-162: a category's picker returns early with nothing to show
PickerShown(kind) ==
    /\ PickersDrawn
    /\ (links[kind] # << >> \/ accepted[kind] # {})

\* line 164: the URLs of "combined"
Combined(kind) ==
    { links[kind][i] : i \in 1..Len(links[kind]) } \cup accepted[kind]

\* lines 171-174: the save button of a row, drawn only for a URL not yet accepted
Accept(kind, url) ==
    /\ pc = "idle"
    /\ PickerShown(kind)
    /\ url \in Combined(kind)
    /\ url \notin accepted[kind]
    /\ accepted' = [accepted EXCEPT ![kind] = @ \cup {url}]
    /\ last' = Click("accept", kind, TRUE)
    /\ sent' = << >>
    /\ UNCHANGED call
    /\ UNCHANGED <<rejected, links, queries, start_index, n_results, t_qs, s_qs,
                   pc, run>>

\* lines 175-180: the drop button of a row
Reject(kind, url) ==
    /\ pc = "idle"
    /\ PickerShown(kind)
    /\ url \in Combined(kind)
    /\ accepted' = [accepted EXCEPT ![kind] = @ \ {url}]
    /\ rejected' = [rejected EXCEPT ![kind] = @ \cup {url}]
    /\ links' = [links EXCEPT ![kind] =
                    IF InList(url, @) THEN ListRemove(@, url) ELSE @]
    /\ last' = Click("reject", kind, TRUE)
    /\ sent' = << >>
    /\ UNCHANGED call
    /\ UNCHANGED <<queries, start_index, n_results, t_qs, s_qs, pc, run>>

\* lines 181-186: "Add another link" with the text new_url
ManualAdd(kind, new_url) ==
    /\ pc = "idle"
    /\ PickerShown(kind)
    /\ new_url # NoURL
    /\ links' = [links EXCEPT ![kind] =
                    IF ~InList(new_url, @) /\ new_url \notin rejected[kind]
                    THEN Append(@, new_url) ELSE @]
    /\ last' = Click("add", kind, TRUE)
    /\ sent' = << >>
    /\ UNCHANGED call
    /\ UNCHANGED <<accepted, rejected, queries, start_index, n_results, t_qs,
                   s_qs, pc, run>>

\* the request of "More suggestions": the stored query, the count of the
\* last Fetch links, and the category's cursor as offset (lines 188-192)
MoreCall(kind) ==
    SearchCall(kind, queries[kind].q, n_results, start_index[kind])

\* the search of "More suggestions": lines 188-192
MoreSearch(kind, resp) ==
    serp_links(resp, n_results, queries[kind].lit, kind)

\* "More suggestions" that advances the cursor by the number of URLs appended.
FetchMoreReturns_AdvanceByAppended(kind, resp) ==
    /\ pc = "idle"
    /\ PickerShown(kind)
    /\ queries[kind] # NoQuery
    /\ LET new == AppendNew(links[kind], MoreSearch(kind, resp), accepted[kind])
       IN  /\ links' = [links EXCEPT ![kind] = new]
           /\ start_index' = [start_index EXCEPT ![kind] =
                                 @ + (Len(new) - Len(links[kind]))]
    /\ last' = Click("more", kind, TRUE)
    /\ sent' = <<MoreCall(kind)>>
    /\ UNCHANGED call
    /\ UNCHANGED <<accepted, rejected, queries, n_results, t_qs, s_qs, pc, run>>

\* lines 187-197: "More suggestions" when the search returns the body resp.
\* Without a stored query (line 189) the click does nothing.
FetchMoreReturns(kind, resp) ==
    /\ pc = "idle"
    /\ PickerShown(kind)
    /\ last' = Click("more", kind, TRUE)
    /\ UNCHANGED call
    /\ IF queries[kind] = NoQuery
       THEN /\ sent' = << >>
            /\ UNCHANGED <<links, start_index>>
       ELSE /\ sent' = <<MoreCall(kind)>>
            /\ links' = [links EXCEPT ![kind] =
                           AppendNew(@, MoreSearch(kind, resp), accepted[kind])]
            /\ start_index' = [start_index EXCEPT ![kind] = @ + n_results]
    /\ UNCHANGED <<accepted, rejected, queries, n_results, t_qs, s_qs, pc, run>>

\* "More suggestions" when the search raises: line 192 ends the script run
FetchMoreRaises(kind) ==
    /\ pc = "idle"
    /\ PickerShown(kind)
    /\ queries[kind] # NoQuery
    /\ last' = Click("more", kind, FALSE)
    /\ sent' = <<MoreCall(kind)>>
    /\ UNCHANGED call
    /\ UNCHANGED <<accepted, rejected, links, queries, start_index, n_results,
                   t_qs, s_qs, pc, run>>

----------------------------------------------------------------------------
(* Question generation: lines 70-78 and 208-219 *)

Whitespace == {" ", "\t", "\n", "\r"}

\* str.splitlines on the line feed
RECURSIVE splitlines(_)
splitlines(text) ==
    IF text = << >> THEN << >>
    ELSE LET brk == { i \in 1..Len(text) : text[i] = "\n" }
         IN  IF brk = {} THEN <<text>>
             ELSE LET i == CHOOSE k \in brk : \A j \in brk : k <= j
                  IN  <<SubSeq(text, 1, i - 1)>>
                        \o splitlines(SubSeq(text, i + 1, Len(text)))

\* str.lstrip
RECURSIVE lstrip(_)
lstrip(ln) ==
    IF ln # << >> /\ Head(ln) \in Whitespace THEN lstrip(Tail(ln)) ELSE ln

\* str.rstrip
RECURSIVE rstrip(_)
rstrip(ln) ==
    IF ln # << >> /\ ln[Len(ln)] \in Whitespace
    THEN rstrip(SubSeq(ln, 1, Len(ln) - 1)) ELSE ln

\* str.strip
strip(ln) == rstrip(lstrip(ln))

\* str.startswith(tuple("12345"))
StartsWithDigit(ln) == ln # << >> /\ Head(ln) \in {"1", "2", "3", "4", "5"}

\* extract_questions that tests the line as it stands, leading whitespace
\* included.
extract_questions_NoLstrip(text) ==
    LET lines == splitlines(text)
        kept  == SelectSeq(lines, StartsWithDigit)
    IN  [i \in 1..Len(kept) |-> strip(kept[i])]

\* extract_questions: line 78
extract_questions(text) ==
    LET lines == splitlines(text)
        kept  == SelectSeq(lines, LAMBDA ln : StartsWithDigit(lstrip(ln)))
    IN  [i \in 1..Len(kept) |-> strip(kept[i])]

\* The texts the generation model answers with: two numbered lines among
\* others, no numbered line, and six numbered lines (the last one is "10").
GeminiTexts ==
    { <<"Q", ":", "\n", "1", ".", "a", "\n", " ", "2", ".", "b", " ", "\n", "6", ".", "c">>,
      <<"n", "o", "n", "e">>,
      <<"1", "\n", "2", "\n", "3", "\n", "4", "\n", "5", "\n", "1", "0">> }

\* The outcome of one gemini(prompt) call: a text, or an exception.
GeminiRaises == << "raise" >>
GeminiOutcomes == GeminiTexts \cup {GeminiRaises}

\* join_text (line 213): the pages downloaded for a list of links, the first
\* results_per_query * 2 of them, in order
JoinText(L, rpq) ==
    LET head == Take(L, rpq * 2)
    IN  [i \in 1..Len(head) |-> FetchCall(head[i])]

\* lines 214-216: the downloads of t_docs, s_docs and l_docs
Downloads(rpq) ==
    JoinText(links["t"] \o links["prev"], rpq)
        \o JoinText(links["s"], rpq)
        \o JoinText(links["lit"], rpq)

\* The click on "Generate Questions" (lines 208-219) with the slider at rpq.
\* fetch_text catches every exception, so the page downloads change no
\* session state and cannot end the handler; r1 and r2 are the outcomes of
\* the two gemini calls.
GenerateQuestions(rpq, r1, r2) ==
    /\ pc = "idle"
    /\ UNCHANGED call
    /\ IF links["t"] = << >> \/ links["s"] = << >>
       THEN /\ last' = Click("generate_gated", "", TRUE)
            /\ sent' = << >>
            /\ UNCHANGED <<t_qs, s_qs>>
       ELSE IF r1 = GeminiRaises
       THEN /\ last' = Click("generate", "", FALSE)
            /\ sent' = Downloads(rpq) \o <<GeminiCall("tender")>>
            /\ UNCHANGED <<t_qs, s_qs>>
       ELSE IF r2 = GeminiRaises
       THEN /\ t_qs' = extract_questions(r1)
            /\ last' = Click("generate", "", FALSE)
            /\ sent' = Downloads(rpq)
                          \o <<GeminiCall("tender"), GeminiCall("supplier")>>
            /\ UNCHANGED s_qs
       ELSE /\ t_qs' = extract_questions(r1)
            /\ s_qs' = extract_questions(r2)
            /\ last' = Click("generate", "", TRUE)
            /\ sent' = Downloads(rpq)
                          \o <<GeminiCall("tender"), GeminiCall("supplier")>>
    /\ UNCHANGED <<accepted, rejected, links, queries, start_index, n_results,
                   pc, run>>

----------------------------------------------------------------------------
(* Page download: lines 51-65 *)

\* dict.get / Tag.get: the value of an attribute, or the default when the
\* tag does not carry it
Get(attrs, key, default) == IF key \in DOMAIN attrs THEN attrs[key] ELSE default

\* str.startswith
StartsWith(str, prefix) ==
    /\ Len(prefix) <= Len(str)
    /\ SubSeq(str, 1, Len(prefix)) = prefix

\* the values of a lang attribute or of a content attribute:
\*   ""   "en"   "EN-gb"   "fr"   "de-en"
Langs ==
    { << >>,
      <<"e", "n">>,
      <<"E", "N", "-", "g", "b">>,
      <<"f", "r">>,
      <<"d", "e", "-", "e", "n">> }

\* the attributes of a tag that may carry the attribute key
AttrsWith(key) == { << >> } \cup { [a \in {key} |-> v] : v \in Langs }

\* soup.html: None, or the root element with its attributes
NoTag == [tag |-> "None", attrs |-> << >>]
HtmlTags == { [tag |-> "html", attrs |-> a] : a \in AttrsWith("lang") }

\* soup.find("meta", attrs={"http-equiv": "content-language"}): None, or the
\* first such tag with its attributes
MetaTags == { [tag |-> "meta", attrs |-> a] : a \in AttrsWith("content") }

\* soup.get_text(" ", strip=True) of the pages
PageTexts == { << >>, <<"a", "b", "c">> }

\* The outcome of requests.get(url, timeout=10).text handed to BeautifulSoup:
\* an exception, or the parsed page.
DownloadFails == [raises |-> TRUE]
Soups ==
    [raises : {FALSE}, html : {NoTag} \cup HtmlTags,
     meta : {NoTag} \cup MetaTags, text : PageTexts]

\* is_english that takes a page without a declared language for foreign
is_english_FailClosed(soup) ==
    LET lang0 == IF soup.html # NoTag THEN Get(soup.html.attrs, "lang", << >>)
                 ELSE << >>
        lang  == IF lang0 = << >>
                 THEN IF soup.meta # NoTag
                      THEN Get(soup.meta.attrs, "content", << >>) ELSE << >>
                 ELSE lang0
    IN  StartsWith(Lower(lang), <<"e", "n">>)

\* is_english: lines 51-56
is_english(soup) ==
    LET lang0 == IF soup.html # NoTag THEN Get(soup.html.attrs, "lang", << >>)
                 ELSE << >>
        lang  == IF lang0 = << >>
                 THEN IF soup.meta # NoTag
                      THEN Get(soup.meta.attrs, "content", << >>) ELSE << >>
                 ELSE lang0
    IN  lang = << >> \/ StartsWith(Lower(lang), <<"e", "n">>)

\* the default of max_chars (line 58) and the values fetch_text is applied to
DefaultMaxChars == 8000
MaxCharsValues == {0, 2, DefaultMaxChars}

\* fetch_text (lines 58-65) on the outcome page of the download, with
\* st.session_state["only_eng"] as only_eng
fetch_text(page, only_eng, max_chars) ==
    IF page.raises THEN << >>
    ELSE IF only_eng /\ ~is_english(page) THEN << >>
    ELSE Take(page.text, max_chars)

----------------------------------------------------------------------------
(* The helper functions applied on their own *)

\* longest reply of the generation model, in lines
MaxLines == 5

\* the lines a reply is made of:
\*   "1.a"   " 5.b "   "6.c"   "Q:"   " "   ""
ReplyLines ==
    { <<"1", ".", "a">>,
      <<" ", "5", ".", "b", " ">>,
      <<"6", ".", "c">>,
      <<"Q", ":">>,
      <<" ">>,
      << >> }

\* "\n".join(lines)
RECURSIVE JoinLines(_)
JoinLines(lines) ==
    IF lines = << >> THEN << >>
    ELSE IF Len(lines) = 1 THEN lines[1]
    ELSE lines[1] \o <<"\n">> \o JoinLines(Tail(lines))

\* the replies extract_questions is applied to
ReplyTexts == { JoinLines(ls) : ls \in SeqsUpTo(ReplyLines, MaxLines) }

\* the applications of extract_questions and of fetch_text, before they return
ParseCalls ==
    { [fn |-> "extract_questions", arg |-> text, done |-> FALSE, ret |-> << >>] :
        text \in ReplyTexts }
FetchCalls ==
    { [fn |-> "fetch_text",
       arg |-> [page |-> page, only_eng |-> e, max_chars |-> m],
       done |-> FALSE, ret |-> << >>] :
        page \in {DownloadFails} \cup Soups, e \in BOOLEAN, m \in MaxCharsValues }

InitCalls ==
    /\ Defaults
    /\ \/ call \in ParseCalls
       \/ call \in FetchCalls

Apply_extract_questions ==
    /\ call.fn = "extract_questions"
    /\ ~call.done
    /\ call' = [call EXCEPT !.done = TRUE, !.ret = extract_questions(call.arg)]
    /\ UNCHANGED <<accepted, rejected, links, queries, start_index, n_results,
                   t_qs, s_qs, pc, run, last, sent>>

Apply_fetch_text ==
    /\ call.fn = "fetch_text"
    /\ ~call.done
    /\ call' = [call EXCEPT !.done = TRUE,
                            !.ret = fetch_text(call.arg.page, call.arg.only_eng,
                                               call.arg.max_chars)]
    /\ UNCHANGED <<accepted, rejected, links, queries, start_index, n_results,
                   t_qs, s_qs, pc, run, last, sent>>

NextCalls ==
    \/ Apply_extract_questions
    \/ Apply_fetch_text

SpecCalls == InitCalls /\ [][NextCalls]_vars

----------------------------------------------------------------------------
(* The sessions explored *)

\* the categories searched so far
Searched == { k \in Kinds : queries[k] # NoQuery }

\* Every handler of the page, with the form's values drawn from the given
\* sets: sessions is the family of category sets a session may search (all
\* the checkboxes it ever sets lie in one member), slider the values of the
\* results-per-query slider, bodies the answers of the search API, typed the
\* URLs typed into "Add another link", and "More suggestions" is clicked
\* while the cursor stays within maxStart.
NextOver(sessions, slider, bodies, typed, maxStart) ==
    \/ \E product \in Products, rpq \in slider, chk \in SUBSET Kinds :
          /\ \E S \in sessions : Searched \cup chk \subseteq S
          /\ FetchLinks(product, rpq, chk)
    \/ \E resp \in bodies : SearchReturns(resp)
    \/ SearchRaises
    \/ \E kind \in Kinds, url \in URLS : Accept(kind, url)
    \/ \E kind \in Kinds, url \in URLS : Reject(kind, url)
    \/ \E kind \in Kinds, new_url \in typed \cup {NoURL} : ManualAdd(kind, new_url)
    \/ \E kind \in Kinds, resp \in bodies :
          /\ start_index[kind] + n_results <= maxStart
          /\ FetchMoreReturns(kind, resp)
    \/ \E kind \in Kinds : FetchMoreRaises(kind)
    \/ \E rpq \in slider, r1 \in GeminiOutcomes, r2 \in GeminiOutcomes :
          GenerateQuestions(rpq, r1, r2)

\* Sessions that search one category, with every slider value up to MaxRPQ
\* and every body of the search API.
Next == NextOver({ {k} : k \in Kinds }, 1..MaxRPQ, Responses, URLS, MaxStart)

Spec == Init /\ [][Next]_vars

\* Sessions that search the tender and the supplier category, the two that
\* "Generate Questions" needs, with the slider at 1, bodies of one result,
\* two URLs and one page of more suggestions.
NextPair == NextOver({ {"t", "s"} }, {1}, ShortResponses, {1, 2}, 1 + 1)

SpecPair == Init /\ [][NextPair]_vars

----------------------------------------------------------------------------
(* Properties of the link curation store *)

\* C1: in every reachable state the accepted set and the rejected set of
\* each category are disjoint.
C1_AcceptedRejectedDisjoint ==
    \A k \in Kinds : accepted[k] \cap rejected[k] = {}

\* C2: in every reachable state no URL of a category's candidates list is
\* in that category's accepted set or rejected set.
C2_CandidatesUnknown ==
    \A k \in Kinds : \A i \in 1..Len(links[k]) :
        links[k][i] \notin accepted[k] \cup rejected[k]

\* C3: Reject(u) leaves u in rejected, not in accepted and not in candidates.
C3_RejectOverrides ==
    [][\A k \in Kinds, u \in URLS :
          Reject(k, u) =>
             /\ u \in rejected'[k]
             /\ u \notin accepted'[k]
             /\ ~InList(u, links'[k])]_vars

\* C4: ManualAdd(u) changes nothing when u is already in candidates, accepted
\* or rejected; otherwise it appends u to candidates and changes nothing else.
C4_ManualAddIdempotent ==
    [][\A k \in Kinds, u \in URLS :
          ManualAdd(k, u) =>
             /\ links' = [links EXCEPT ![k] =
                            IF InList(u, @) \/ u \in accepted[k] \/ u \in rejected[k]
                            THEN @ ELSE Append(@, u)]
             /\ UNCHANGED <<accepted, rejected, start_index>>]_vars

\* C5: every FetchMore whose search returns advances the category's cursor
\* by exactly the requested count n_results, whatever the body holds, and
\* moves no other cursor.
C5_CursorAdvances ==
    [][(last'.op = "more" /\ last'.ok) =>
          start_index' = [start_index EXCEPT ![last'.kind] = @ + n_results]]_vars

\* A FetchMore has advanced the tender cursor from 2 to 4 and the candidates
\* list did not grow with it.
C5_Witness ==
    /\ last = Click("more", "t", TRUE)
    /\ n_results = 2
    /\ start_index["t"] = 4
    /\ Len(links["t"]) = 1

\* C6: right after a Fetch-initial or a FetchMore, no URL of a category's
\* rejected set is in its candidates.
C6_NoRejectedAfterFetch ==
    [][(\/ last'.op = "fetch" /\ pc' = "idle"
        \/ last'.op = "search" /\ last'.ok /\ pc' = "idle"
        \/ last'.op = "more" /\ last'.ok)
          => \A k \in Kinds : \A u \in rejected'[k] : ~InList(u, links'[k])]_vars

\* the body of a search that found nothing
EmptyBody == [organic_results |-> << >>]

\* C7: a search that fails does not end the script run with an exception and
\* behaves as a search that returned no result: the Fetch-links handler goes
\* on as after an empty answer, and "More suggestions" still advances the
\* cursor.
C7_FailureIsEmptyResult ==
    [][/\ SearchRaises => SearchReturns(EmptyBody)
       /\ \A k \in Kinds : FetchMoreRaises(k) => FetchMoreReturns(k, EmptyBody)]_vars

\* C8: a Generate Questions in which a generation call fails changes neither
\* question set.
C8_NoPartialQuestions ==
    [][(last'.op = "generate" /\ ~last'.ok) => UNCHANGED <<t_qs, s_qs>>]_vars

\* C9: a literature search returns only URLs that pass the Domain Filter:
\* the Fetch-initial search, which requests 2n results, stores only scholarly
\* candidates, and every URL a FetchMore adds to them is scholarly.
C9_LiteratureIsScholarly ==
    [][/\ (last'.op = "search" /\ last'.kind = "lit" /\ last'.ok) =>
             /\ \A i \in 1..Len(links'["lit"]) : is_scholar_url(links'["lit"][i])
             /\ start_index'["lit"] = 2 * n_results
       /\ (last'.op = "more" /\ last'.kind = "lit" /\ last'.ok) =>
             \A i \in 1..Len(links'["lit"]) :
                 InList(links'["lit"][i], links["lit"])
                    \/ is_scholar_url(links'["lit"][i])]_vars

\* A literature FetchMore has added the scholarly URL 3 behind the scholarly
\* URL 1 of the first fetch and the URL 2 that was added by hand.
C9_Witness ==
    /\ last = Click("more", "lit", TRUE)
    /\ links["lit"] = <<1, 2, 3>>

\* The results of a body that carry a link or url field, the first n of
\* them, and those of the first n whose URL (link preferred) is not excluded.
C10_Results(resp) ==
    IF "organic_results" \in DOMAIN resp THEN resp.organic_results ELSE << >>
C10_Url(x) == IF x.link = NoURL THEN x.url ELSE x.link
C10_Carriers(rs) == { i \in 1..Len(rs) : rs[i].link # NoURL \/ rs[i].url # NoURL }
C10_FirstN(rs, n) ==
    { i \in C10_Carriers(rs) : Cardinality({ j \in C10_Carriers(rs) : j < i }) < n }
C10_Kept(rs, n, excl) == { i \in C10_FirstN(rs, n) : C10_Url(rs[i]) \notin excl }
\* the URLs of the kept results in upstream order
C10_Expected(resp, n, excl) ==
    LET rs   == C10_Results(resp)
        kept == C10_Kept(rs, n, excl)
        at(p) == CHOOSE i \in kept : Cardinality({ j \in kept : j < i }) = p - 1
    IN  [p \in 1..Cardinality(kept) |-> C10_Url(rs[at(p)])]

\* C10: a non-literature search with count n returns the URLs of the first n
\* results that carry a link or url field (link preferred), in upstream
\* order, without the rejected URLs, hence at most n URLs.  It is stated of
\* the search a Fetch-links block is about to issue and of the search "More
\* suggestions" would issue, for every body of the search API.
C10_SearchTruncates ==
    \A resp \in Responses :
       /\ pc \in Kinds \ {"lit"} =>
             /\ InitialSearch(pc, resp) = C10_Expected(resp, n_results, rejected[pc])
             /\ Len(InitialSearch(pc, resp)) <= n_results
       /\ \A k \in Kinds :
             (pc = "idle" /\ PickerShown(k) /\ ~queries[k].lit) =>
                /\ MoreSearch(k, resp) = C10_Expected(resp, n_results, rejected[k])
                /\ Len(MoreSearch(k, resp)) <= n_results

\* The tender search is about to be issued with count 1 while URL 1 is
\* rejected: bodies of two results are truncated and filtered.
C10_Witness ==
    /\ pc = "t"
    /\ n_results = 1
    /\ rejected["t"] = {1}

----------------------------------------------------------------------------
(* Properties of the question parser and of the page download *)

\* The lines of a text: the stretches between its line feeds.
C11_Breaks(text) == { i \in 1..Len(text) : text[i] = "\n" }
C11_Break(text, j) ==
    IF j = 0 THEN 0
    ELSE IF j > Cardinality(C11_Breaks(text)) THEN Len(text) + 1
    ELSE CHOOSE i \in C11_Breaks(text) :
            Cardinality({ k \in C11_Breaks(text) : k < i }) = j - 1
C11_Lines(text) ==
    [j \in 1..(Cardinality(C11_Breaks(text)) + 1) |->
        SubSeq(text, C11_Break(text, j - 1) + 1, C11_Break(text, j) - 1)]

\* A line whose first non-whitespace character is a digit 1 to 5, and what
\* is written on a line between its first and last non-whitespace character.
C11_Blank == {" ", "\t"}
C11_IsNumbered(ln) ==
    \E i \in 1..Len(ln) :
        /\ ln[i] \in {"1", "2", "3", "4", "5"}
        /\ \A j \in 1..(i - 1) : ln[j] \in C11_Blank
C11_Written(ln) ==
    LET inked == { i \in 1..Len(ln) : ln[i] \notin C11_Blank }
    IN  IF inked = {} THEN << >>
        ELSE SubSeq(ln, CHOOSE i \in inked : \A j \in inked : i <= j,
                        CHOOSE i \in inked : \A j \in inked : j <= i)
C11_Numbered(text) == SelectSeq(C11_Lines(text), C11_IsNumbered)

\* C11: extract_questions returns one element for each line of the reply
\* whose first non-whitespace character is a digit 1 to 5, in the order of
\* the reply, each element being what is written on that line; every other
\* line is dropped, and a reply with k such lines gives a list of k elements.
C11_ParseKeepsNumberedLines ==
    (call.fn = "extract_questions" /\ call.done) =>
        LET want == C11_Numbered(call.arg)
        IN  /\ Len(call.ret) = Len(want)
            /\ \A i \in 1..Len(want) : call.ret[i] = C11_Written(want[i])

\* A reply of five lines of which three are numbered, one of them indented,
\* has been parsed into three questions.
C11_Witness ==
    /\ call.fn = "extract_questions"
    /\ call.done
    /\ Len(C11_Lines(call.arg)) = 5
    /\ Len(call.ret) = 3
    /\ call.ret[2] = <<"5", ".", "b">>

\* C12: the question list stored for the tender role and the one stored for
\* the supplier role never have more than 5 elements.
C12_AtMostFiveQuestions == Len(t_qs) <= 5 /\ Len(s_qs) <= 5

\* The language a page declares: the lang attribute of its root element, or
\* the content of its content-language meta tag when the root element is
\* missing or has no lang attribute or an empty one; << >> when none is declared.
C13_RootLang(page) ==
    IF page.html.tag = "html" /\ "lang" \in DOMAIN page.html.attrs
    THEN page.html.attrs["lang"] ELSE << >>
C13_MetaLang(page) ==
    IF page.meta.tag = "meta" /\ "content" \in DOMAIN page.meta.attrs
    THEN page.meta.attrs["content"] ELSE << >>
C13_Declared(page) ==
    IF C13_RootLang(page) # << >> THEN C13_RootLang(page) ELSE C13_MetaLang(page)
C13_StartsWithEn(lang) ==
    /\ Len(lang) >= 2
    /\ lang[1] \in {"e", "E"}
    /\ lang[2] \in {"n", "N"}
C13_Expected(page, only_eng, max_chars) ==
    IF page.raises THEN << >>
    ELSE IF /\ only_eng
            /\ C13_Declared(page) # << >>
            /\ ~C13_StartsWithEn(C13_Declared(page))
    THEN << >>
    ELSE [i \in 1..(IF Len(page.text) < max_chars THEN Len(page.text) ELSE max_chars)
            |-> page.text[i]]

\* C13: fetch_text always returns, and returns the empty string for a failed
\* download and for a page whose declared language does not start with "en"
\* (in any case) while English-only is on; in every other case (no declared
\* language, a language starting with "en", English-only off) it returns the
\* page text cut to max_chars.
C13_FetchTextLanguageRule ==
    (call.fn = "fetch_text" /\ call.done) =>
        call.ret = C13_Expected(call.arg.page, call.arg.only_eng, call.arg.max_chars)

\* An English-only download of a page whose root element has an empty lang
\* attribute and whose meta tag declares "fr" has returned the empty string.
C13_Witness ==
    /\ call.fn = "fetch_text"
    /\ call.done
    /\ call.arg.only_eng
    /\ ~call.arg.page.raises
    /\ call.arg.page.html = [tag |-> "html", attrs |-> [a \in {"lang"} |-> << >>]]
    /\ call.arg.page.meta = [tag |-> "meta", attrs |-> [a \in {"content"} |-> <<"f", "r">>]]
    /\ call.arg.page.text = <<"a", "b", "c">>
    /\ call.arg.max_chars = DefaultMaxChars
    /\ call.ret = << >>

----------------------------------------------------------------------------
(* Properties of the pickers, of the handlers and of their calls *)

\* C14: Accept on a URL shown for a category moves it from the candidates
\* into the accepted set: afterwards it is accepted and no longer a candidate.
C14_AcceptMoves ==
    [][\A k \in Kinds, u \in URLS :
          Accept(k, u) => (u \in accepted'[k] /\ ~InList(u, links'[k]))]_vars

\* C15: whenever the page is drawn, every accepted URL of every category is
\* among the rows of that category's picker.
C15_AcceptedVisible ==
    pc = "idle" =>
        \A k \in Kinds : \A u \in accepted[k] : PickerShown(k) /\ u \in Combined(k)

\* C16: no candidates list holds a URL twice.
C16_NoDuplicateCandidates ==
    \A k \in Kinds : \A i, j \in 1..Len(links[k]) :
        links[k][i] = links[k][j] => i = j

\* the URLs a category holds: its candidates and its accepted set
C17_Held(k) == { links[k][i] : i \in 1..Len(links[k]) } \cup accepted[k]

\* C17: an ungated Generate Questions downloads the page of every candidate
\* and accepted URL of the four categories, issues every download before the
\* first generation call, and the tender call before the supplier call.
C17_DownloadsBeforeGeneration ==
    [][last'.op = "generate" =>
          /\ \A k \in Kinds : \A u \in C17_Held(k) :
                \E i \in 1..Len(sent') :
                    sent'[i].op = "fetch_text" /\ sent'[i].url = u
          /\ \A i, j \in 1..Len(sent') :
                (sent'[i].op = "fetch_text" /\ sent'[j].op = "gemini") => i < j
          /\ \A i, j \in 1..Len(sent') :
                (/\ sent'[i].op = "gemini" /\ sent'[i].role = "tender"
                 /\ sent'[j].op = "gemini" /\ sent'[j].role = "supplier") => i < j]_vars

\* C18: no step takes a URL out of a rejected set, and the steps of Fetch
\* links and of More suggestions leave every accepted and rejected set as
\* it was.
C18_RejectedOnlyGrows ==
    [][/\ \A k \in Kinds : rejected[k] \subseteq rejected'[k]
       /\ last'.op \in {"fetch", "fetch_gated", "search", "more"}
             => UNCHANGED <<accepted, rejected>>]_vars

\* A second Fetch links has searched the tender category again while URL 1
\* is rejected and URL 2 accepted there.
C18_Witness ==
    /\ last = Click("search", "t", TRUE)
    /\ rejected["t"] = {1}
    /\ accepted["t"] = {2}

\* some category holds a candidate or an accepted URL
C19_LinksPresent == \E k \in Kinds : links[k] # << >> \/ accepted[k] # {}

\* C19: a Fetch links click with an empty product name, and a Generate
\* Questions click while no category holds a candidate or accepted URL,
\* change no session state and send no call; a Generate Questions click
\* while some category holds one does send a generation call.
C19_GatedActions ==
    [][/\ (\/ last'.op = "fetch_gated"
           \/ last'.op \in {"generate", "generate_gated"} /\ ~C19_LinksPresent)
          => /\ UNCHANGED <<accepted, rejected, links, queries, start_index,
                            n_results, t_qs, s_qs>>
             /\ sent' = << >>
       /\ (last'.op \in {"generate", "generate_gated"} /\ C19_LinksPresent)
          => \E i \in 1..Len(sent') : sent'[i].op = "gemini"]_vars

\* C20: every search a step sends carries the category's stored query; the
\* search of Fetch links asks for offset 0 and the count n (2n for
\* literature), the search of More suggestions asks for the offset the
\* cursor holds; and after the step the cursor is the offset plus the count
\* of that search, so the next search starts where this one ended.
C20_ContiguousRanges ==
    [][\A i \in 1..Len(sent') :
          sent'[i].op = "search" =>
             LET c == sent'[i]
             IN  /\ c.q = queries'[c.kind].q
                 /\ last'.op = "search" =>
                       c.start = 0 /\ c.n = InitialCount(c.kind, n_results')
                 /\ last'.op = "more" => c.start = start_index[c.kind]
                 /\ start_index'[c.kind] = c.start + c.n]_vars

====
